---------------------------- MODULE Spec2Model ----------------------------
(***************************************************************************)
(* Module-and-path resolution core of luau-lsp.                            *)
(*                                                                         *)
(*  - LSPNavigationContext: the navigation cursor used by the require      *)
(*    resolution algorithm (resetToRequirer, jumpToAlias, toParent,        *)
(*    toChild, getConfigStatus, ...).         specification: Spec          *)
(*  - WorkspaceFileResolver::readConfigRec / clearConfigCache: the         *)
(*    memoized, inheriting configuration resolver. specification: SpecCfg  *)
(*                                                                         *)
(* A path string is modelled as a sequence of tokens.  A token is a        *)
(* separator ("/" or "\\"), a source suffix (".luau", ".lua") or a name    *)
(* without separator ("proj", "init", ".config", ".luaurc", ...).  String  *)
(* concatenation is \o and the string "/proj/src/b.luau" is                *)
(* <<"/","proj","/","src","/","b",".luau">>.                               *)
(***************************************************************************)
EXTENDS Naturals, Sequences, FiniteSets, TLC

VARIABLES
    files,          \* navigator filesystem: the paths that are regular files
    dirs,           \* navigator filesystem: the paths that are directories
    requirerPath,   \* LSPNavigationContext::requirerPath
    modulePath,     \* LSPNavigationContext::modulePath
    realPath,       \* LSPNavigationContext::realPath
    last,           \* the last navigation call on the cursor: [op, arg, result]
    walk,           \* position of the caller resolving require("./b")
    disk,           \* resolver filesystem: config file contents per directory
    configCache,    \* WorkspaceFileResolver::configCache
    client,         \* WorkspaceFileResolver::client is non-null
    diagnostics,    \* per config file URI: the diagnostics list last published
    events,         \* diagnostics events published by the last request
    req,            \* the last resolver request: [op, dir, ret, hit, cold, was, name]
    edits,          \* number of config file changes so far
    platform,       \* WorkspaceFileResolver::platform: the path mapping it provides
    managedFiles,   \* WorkspaceFileResolver::managedFiles: URIs of the open documents
    reply           \* the last facade request and what the caller got: [op, arg, ret]

navVars == <<files, dirs, requirerPath, modulePath, realPath, last, walk>>
cfgVars == <<disk, configCache, client, diagnostics, events, req, edits>>
wsVars == <<platform, managedFiles, reply>>
vars == <<files, dirs, requirerPath, modulePath, realPath, last, walk,
          disk, configCache, client, diagnostics, events, req, edits,
          platform, managedFiles, reply>>

-----------------------------------------------------------------------------
(* Bounds of the model *)

\* at most this many entries (files, extra directories) below /proj
MaxEntries == 2
\* toChild is explored while the logical path has fewer segments than this
MaxDepth == 3

-----------------------------------------------------------------------------
(* Strings *)

EmptyStr == <<>>
Slash == <<"/">>

kSuffixes == << <<".luau">>, <<".lua">> >>
kInitSuffixes == << <<"/", "init", ".luau">>, <<"/", "init", ".lua">> >>

\* Luau::kConfigName (".luaurc") and Luau::kLuauConfigName (".config.luau")
kConfigName == <<".luaurc">>
kLuauConfigName == <<".config", ".luau">>

hasSuffix(str, suffix) ==
    /\ Len(str) >= Len(suffix)
    /\ SubSeq(str, Len(str) - Len(suffix) + 1, Len(str)) = suffix

removeSuffix(str, suffix) == SubSeq(str, 1, Len(str) - Len(suffix))

IsSep(t) == t \in {"/", "\\"}

\* std::string::find_last_of('/'): 0 stands for npos
RECURSIVE findLastSlash(_, _)
findLastSlash(str, i) ==
    IF i = 0 THEN 0
    ELSE IF str[i] = "/" THEN i
    ELSE findLastSlash(str, i - 1)

RECURSIVE countSlashes(_)
countSlashes(str) ==
    IF str = <<>> THEN 0
    ELSE (IF Head(str) = "/" THEN 1 ELSE 0) + countSlashes(Tail(str))

\* the directory holding a path: the path up to its last separator
parentDir(path) ==
    LET lastSlash == findLastSlash(path, Len(path)) IN
    IF lastSlash <= 1 THEN Slash ELSE SubSeq(path, 1, lastSlash - 1)

-----------------------------------------------------------------------------
(* Luau::FileUtils *)

isAbsolutePath(path) == Len(path) >= 1 /\ path[1] = "/"

\* splitPath: the components between separators, empty ones included
RECURSIVE splitPath(_, _, _)
splitPath(path, i, cur) ==
    IF i > Len(path) THEN <<cur>>
    ELSE IF IsSep(path[i]) THEN <<cur>> \o splitPath(path, i + 1, <<>>)
    ELSE splitPath(path, i + 1, Append(cur, path[i]))

RECURSIVE normalizeComponents(_, _, _, _)
normalizeComponents(comps, i, stack, isAbs) ==
    IF i > Len(comps) THEN stack
    ELSE LET c == comps[i] IN
         IF c = <<"..">> THEN
             IF stack = <<>> THEN
                 normalizeComponents(comps, i + 1,
                                     IF isAbs THEN stack ELSE <<c>>, isAbs)
             ELSE IF stack[Len(stack)] = <<"..">> THEN
                 normalizeComponents(comps, i + 1, Append(stack, c), isAbs)
             ELSE normalizeComponents(comps, i + 1,
                                      SubSeq(stack, 1, Len(stack) - 1), isAbs)
         ELSE IF c = <<>> \/ c = <<".">> THEN
             normalizeComponents(comps, i + 1, stack, isAbs)
         ELSE normalizeComponents(comps, i + 1, Append(stack, c), isAbs)

RECURSIVE joinComponents(_, _)
joinComponents(stack, i) ==
    IF i > Len(stack) THEN <<>>
    ELSE (IF i > 1 THEN Slash ELSE <<>>) \o stack[i] \o joinComponents(stack, i + 1)

normalizePath(path) ==
    LET isAbs == isAbsolutePath(path)
        comps == splitPath(path, 1, <<>>)
        stack == normalizeComponents(comps, IF isAbs THEN 2 ELSE 1, <<>>, isAbs)
        prefix == IF isAbs THEN Slash
                  ELSE IF stack = <<>> \/ stack[1] # <<"..">> THEN <<".", "/">>
                  ELSE <<>>
    IN prefix \o joinComponents(stack, 1)

\* the operating system resolves a path with repeated separators
RECURSIVE collapse(_)
collapse(path) ==
    IF Len(path) < 2 THEN path
    ELSE IF Head(path) = "/" /\ path[2] = "/" THEN collapse(Tail(path))
    ELSE <<Head(path)>> \o collapse(Tail(path))

isFile(path) == collapse(path) \in files
isDirectory(path) == collapse(path) \in dirs

-----------------------------------------------------------------------------
(* LSPNavigationContext: the real-path projection *)

Success == "Success"
NotFound == "NotFound"
Ambiguous == "Ambiguous"

\* fault: the first existing suffix wins, a second one is not noticed
probeSuffixesFirstWins(path, suffixes, i, st) ==
    IF st.found \/ \A k \in i..Len(suffixes) : ~isFile(path \o suffixes[k]) THEN st
    ELSE LET k == CHOOSE k \in i..Len(suffixes) :
                      /\ isFile(path \o suffixes[k])
                      /\ \A j \in i..(k - 1) : ~isFile(path \o suffixes[j])
         IN [amb |-> FALSE, found |-> TRUE, suffix |-> suffixes[k]]

\* the loop over potentialSuffix: st is [amb, found, suffix]; amb stands for
\* the early return of Ambiguous
RECURSIVE probeSuffixes(_, _, _, _)
probeSuffixes(path, suffixes, i, st) ==
    IF i > Len(suffixes) THEN st
    ELSE IF isFile(path \o suffixes[i]) THEN
        IF st.found THEN [st EXCEPT !.amb = TRUE]
        ELSE probeSuffixes(path, suffixes, i + 1,
                           [amb |-> FALSE, found |-> TRUE, suffix |-> suffixes[i]])
    ELSE probeSuffixes(path, suffixes, i + 1, st)

\* fault: a directory resolves to itself, its init file is not looked for
getRealPathNoInit(path) ==
    LET lastSlash == findLastSlash(path, Len(path))
        lastComponent == SubSeq(path, lastSlash + 1, Len(path))
        s0 == [amb |-> FALSE, found |-> FALSE, suffix |-> EmptyStr]
        s1 == IF lastComponent # <<"init">>
              THEN probeSuffixes(path, kSuffixes, 1, s0)
              ELSE s0
    IN IF s1.amb \/ (isDirectory(path) /\ s1.found)
       THEN [status |-> Ambiguous, realPath |-> EmptyStr]
       ELSE IF isDirectory(path) THEN [status |-> Success, realPath |-> path]
       ELSE IF ~s1.found THEN [status |-> NotFound, realPath |-> EmptyStr]
       ELSE [status |-> Success, realPath |-> path \o s1.suffix]

\* fault: a suffix file next to a directory of the same name is not reported
getRealPathFilesOnly(path) ==
    LET lastSlash == findLastSlash(path, Len(path))
        lastComponent == SubSeq(path, lastSlash + 1, Len(path))
        s0 == [amb |-> FALSE, found |-> FALSE, suffix |-> EmptyStr]
        s1 == IF lastComponent # <<"init">>
              THEN probeSuffixes(path, kSuffixes, 1, s0)
              ELSE s0
        ambiguous == [status |-> Ambiguous, realPath |-> EmptyStr]
    IN IF s1.amb THEN ambiguous
       ELSE IF isDirectory(path) THEN
           LET s2 == probeSuffixes(path, kInitSuffixes, 1, s1) IN
           IF s2.amb THEN ambiguous
           ELSE [status |-> Success, realPath |-> path \o s2.suffix]
       ELSE IF ~s1.found THEN [status |-> NotFound, realPath |-> EmptyStr]
       ELSE [status |-> Success, realPath |-> path \o s1.suffix]

getRealPath(path) ==
    LET lastSlash == findLastSlash(path, Len(path))
        lastComponent == SubSeq(path, lastSlash + 1, Len(path))
        s0 == [amb |-> FALSE, found |-> FALSE, suffix |-> EmptyStr]
        s1 == IF lastComponent # <<"init">>
              THEN probeSuffixes(path, kSuffixes, 1, s0)
              ELSE s0
        ambiguous == [status |-> Ambiguous, realPath |-> EmptyStr]
    IN IF s1.amb THEN ambiguous
       ELSE IF isDirectory(path) THEN
           IF s1.found THEN ambiguous
           ELSE LET s2 == probeSuffixes(path, kInitSuffixes, 1, s1) IN
                IF s2.amb THEN ambiguous
                ELSE [status |-> Success, realPath |-> path \o s2.suffix]
       ELSE IF ~s1.found THEN [status |-> NotFound, realPath |-> EmptyStr]
       ELSE [status |-> Success, realPath |-> path \o s1.suffix]

RECURSIVE backslashesToSlashes(_)
backslashesToSlashes(str) ==
    IF str = <<>> THEN <<>>
    ELSE <<IF Head(str) = "\\" THEN "/" ELSE Head(str)>>
         \o backslashesToSlashes(Tail(str))

\* the first suffix of the list that str ends with is removed
RECURSIVE stripFirstSuffix(_, _, _)
stripFirstSuffix(str, suffixes, i) ==
    IF i > Len(suffixes) THEN [hit |-> FALSE, str |-> str]
    ELSE IF hasSuffix(str, suffixes[i])
         THEN [hit |-> TRUE, str |-> removeSuffix(str, suffixes[i])]
    ELSE stripFirstSuffix(str, suffixes, i + 1)

\* fault: an init file keeps its directory's init segment
getModulePathSuffixOnly(filePath) ==
    LET pathView == backslashesToSlashes(filePath)
        b == stripFirstSuffix(pathView, kSuffixes, 1)
    IN IF b.hit THEN b.str ELSE pathView

getModulePath(filePath) ==
    LET pathView == backslashesToSlashes(filePath)
        a == stripFirstSuffix(pathView, kInitSuffixes, 1)
        b == stripFirstSuffix(pathView, kSuffixes, 1)
    IN IF a.hit THEN a.str ELSE IF b.hit THEN b.str ELSE pathView

\* fault: the projection's status is returned as it is
updateRealPathsPropagating(mp, rp) ==
    LET result == getRealPath(mp) IN
    IF result.status = Ambiguous
    THEN [status |-> Ambiguous, realPath |-> rp]
    ELSE [status |-> result.status, realPath |-> result.realPath]

\* the value returned and the realPath left behind, for logical path mp and
\* current real path rp
updateRealPaths(mp, rp) ==
    LET result == getRealPath(mp) IN
    IF result.status = Ambiguous
    THEN [status |-> Ambiguous, realPath |-> rp]
    ELSE [status |-> Success, realPath |-> result.realPath]

\* fault: the config file is looked for beside the resolved file
getConfigPathBesideFile(rp, filename) ==
    LET a == stripFirstSuffix(rp, kInitSuffixes, 1)
        b == stripFirstSuffix(rp, kSuffixes, 1)
        directory == IF a.hit THEN a.str ELSE IF b.hit THEN parentDir(b.str) ELSE rp
    IN directory \o Slash \o filename

getConfigPath(rp, filename) ==
    LET a == stripFirstSuffix(rp, kInitSuffixes, 1)
        b == stripFirstSuffix(rp, kSuffixes, 1)
        directory == IF a.hit THEN a.str ELSE IF b.hit THEN b.str ELSE rp
    IN directory \o Slash \o filename

configStatusOf(luaurcExists, luauConfigExists) ==
    IF luaurcExists /\ luauConfigExists THEN "Ambiguous"
    ELSE IF luauConfigExists THEN "PresentLuau"
    ELSE IF luaurcExists THEN "PresentJson"
    ELSE "Absent"

getConfigStatus ==
    configStatusOf(isFile(getConfigPath(realPath, kConfigName)),
                   isFile(getConfigPath(realPath, kLuauConfigName)))

\* fault: a directory counts as a present module
isModulePresentOrDirectory == isFile(realPath) \/ isDirectory(realPath)

isModulePresent == isFile(realPath)
getResolvedPath == realPath
getFallbackPath == IF modulePath = EmptyStr THEN EmptyStr ELSE modulePath \o <<".luau">>

-----------------------------------------------------------------------------
(* The navigator's filesystem and inputs *)

Root == <<"/">>
Proj == <<"/", "proj">>
Src == <<"/", "proj", "/", "src">>

BaseDirs == {Root, Proj, Src}

FileUniverse ==
    { Src \o <<"/", n>> \o sfx :
        n \in {"a", "b", "pkg", "init", ".config"}, sfx \in {<<".luau">>, <<".lua">>} }
    \cup { Src \o <<"/", "pkg">> \o sfx : sfx \in {kInitSuffixes[1], kInitSuffixes[2]} }
    \cup { Src \o Slash \o kConfigName, Src \o <<".luau">> }

OptionalDirs == { Src \o <<"/", "pkg">>, Src \o <<"/", ".config">> }

RequirerA == Src \o <<"/", "a", ".luau">>
RequirerInit == Src \o <<"/", "pkg", "/", "init", ".luau">>
Requirers == {RequirerA, RequirerInit}

\* /proj\src/./b.lua and /proj/src/pkg/init.lua
RequirerWin == <<"/", "proj", "\\", "src", "/", ".", "/", "b", ".lua">>
RequirerInitLua == Src \o <<"/", "pkg", "/", "init", ".lua">>
AllRequirers == Requirers \cup {RequirerWin, RequirerInitLua}

Components == { <<"b">>, <<"pkg">>, <<"init">>, <<".config">> }

\* /proj\src/a/..\pkg/init.lua (absolute) and pkg (not absolute)
AliasPaths ==
    { <<"/", "proj", "\\", "src", "/", "a", "/", "..", "\\", "pkg", "/", "init", ".lua">>,
      <<"pkg">> }

\* /proj/.. : an alias located at the filesystem root
RootAlias == <<"/", "proj", "/", "..">>

NavOps == {"resetToRequirer", "jumpToAlias", "toParent", "toChild"}

\* number of segments of a logical path
RECURSIVE countNonEmpty(_)
countNonEmpty(comps) ==
    IF comps = <<>> THEN 0
    ELSE (IF Head(comps) = <<>> THEN 0 ELSE 1) + countNonEmpty(Tail(comps))

depth(path) == countNonEmpty(splitPath(path, 1, <<>>))

Off == <<"off">>

-----------------------------------------------------------------------------
(* LSPNavigationContext: construction and the navigation steps *)

\* a failed LUAU_ASSERT with assertions enabled ends the process
Aborted == "Aborted"
Running == last.result # Aborted

\* LSPNavigationContext(requirerPath): a cursor per resolution attempt
Construct(r) ==
    /\ Running
    /\ requirerPath' = r
    /\ modulePath' = EmptyStr
    /\ realPath' = EmptyStr
    /\ last' = [op |-> "new", arg |-> EmptyStr, result |-> "None"]
    /\ walk' = <<>>
    /\ UNCHANGED <<files, dirs>>
    /\ UNCHANGED cfgVars
    /\ UNCHANGED wsVars

resetToRequirer ==
    LET normalizedPath == normalizePath(requirerPath)
        mp == getModulePath(normalizedPath)
        r == updateRealPaths(mp, realPath)
    IN /\ Running
       /\ isAbsolutePath(normalizedPath)      \* LUAU_ASSERT
       /\ modulePath' = mp
       /\ realPath' = r.realPath
       /\ last' = [op |-> "resetToRequirer", arg |-> EmptyStr, result |-> r.status]
       /\ walk' = IF last.op = "new" THEN <<r.status>> ELSE Off
       /\ UNCHANGED <<files, dirs, requirerPath>>
       /\ UNCHANGED cfgVars
       /\ UNCHANGED wsVars

\* fault: a rejected alias leaves the cursor without a position
jumpToAliasForgetsPosition(path) ==
    /\ Running
    /\ IF ~isAbsolutePath(path)
       THEN /\ last' = [op |-> "jumpToAlias", arg |-> path, result |-> NotFound]
            /\ modulePath' = EmptyStr
            /\ realPath' = EmptyStr
       ELSE LET mp == getModulePath(normalizePath(path))
                r == updateRealPaths(mp, realPath)
            IN /\ modulePath' = mp
               /\ realPath' = r.realPath
               /\ last' = [op |-> "jumpToAlias", arg |-> path, result |-> r.status]
    /\ walk' = Off
    /\ UNCHANGED <<files, dirs, requirerPath>>
    /\ UNCHANGED cfgVars
    /\ UNCHANGED wsVars

jumpToAlias(path) ==
    /\ Running
    /\ IF ~isAbsolutePath(path)
       THEN /\ last' = [op |-> "jumpToAlias", arg |-> path, result |-> NotFound]
            /\ UNCHANGED <<modulePath, realPath>>
       ELSE LET mp == getModulePath(normalizePath(path))
                r == updateRealPaths(mp, realPath)
            IN /\ modulePath' = mp
               /\ realPath' = r.realPath
               /\ last' = [op |-> "jumpToAlias", arg |-> path, result |-> r.status]
    /\ walk' = Off
    /\ UNCHANGED <<files, dirs, requirerPath>>
    /\ UNCHANGED cfgVars
    /\ UNCHANGED wsVars

\* fault: an ambiguous parent is reported as Ambiguous
toParentNoDemotion ==
    /\ Running
    /\ modulePath = Root \/ countSlashes(modulePath) > 0
    /\ IF modulePath = Root \/ countSlashes(modulePath) = 1
       THEN /\ last' = [op |-> "toParent", arg |-> EmptyStr, result |-> NotFound]
            /\ UNCHANGED <<modulePath, realPath>>
       ELSE LET mp == normalizePath(modulePath \o <<"/", "..">>)
                r == updateRealPaths(mp, realPath)
            IN /\ modulePath' = mp
               /\ realPath' = r.realPath
               /\ last' = [op |-> "toParent", arg |-> EmptyStr, result |-> r.status]
    /\ walk' = IF Len(walk) = 1 /\ walk # Off
               THEN Append(walk, last'.result) ELSE Off
    /\ UNCHANGED <<files, dirs, requirerPath>>
    /\ UNCHANGED cfgVars
    /\ UNCHANGED wsVars

toParent ==
    /\ Running
    /\ modulePath = Root \/ countSlashes(modulePath) > 0      \* LUAU_ASSERT
    /\ IF modulePath = Root \/ countSlashes(modulePath) = 1
       THEN /\ last' = [op |-> "toParent", arg |-> EmptyStr, result |-> NotFound]
            /\ UNCHANGED <<modulePath, realPath>>
       ELSE LET mp == normalizePath(modulePath \o <<"/", "..">>)
                r == updateRealPaths(mp, realPath)
            IN /\ modulePath' = mp
               /\ realPath' = r.realPath
               /\ last' = [op |-> "toParent", arg |-> EmptyStr,
                           result |-> IF r.status = Ambiguous THEN Success
                                      ELSE r.status]
    /\ walk' = IF Len(walk) = 1 /\ walk # Off
               THEN Append(walk, last'.result) ELSE Off
    /\ UNCHANGED <<files, dirs, requirerPath>>
    /\ UNCHANGED cfgVars
    /\ UNCHANGED wsVars

\* fault: the reserved component .config is navigated like any other
toChildNoReservedName(component) ==
    /\ Running
    /\ modulePath # EmptyStr
    /\ depth(modulePath) < MaxDepth
    /\ LET mp == normalizePath(modulePath \o Slash \o component)
           r == updateRealPaths(mp, realPath)
       IN /\ modulePath' = mp
          /\ realPath' = r.realPath
          /\ last' = [op |-> "toChild", arg |-> component, result |-> r.status]
    /\ walk' = IF Len(walk) = 2 /\ component = <<"b">>
               THEN Append(walk, last'.result) ELSE Off
    /\ UNCHANGED <<files, dirs, requirerPath>>
    /\ UNCHANGED cfgVars
    /\ UNCHANGED wsVars

toChild(component) ==
    /\ Running
    /\ modulePath # EmptyStr     \* the caller positions the cursor before it steps
    /\ depth(modulePath) < MaxDepth
    /\ IF component = <<".config">>
       THEN /\ last' = [op |-> "toChild", arg |-> component, result |-> NotFound]
            /\ UNCHANGED <<modulePath, realPath>>
       ELSE LET mp == normalizePath(modulePath \o Slash \o component)
                r == updateRealPaths(mp, realPath)
            IN /\ modulePath' = mp
               /\ realPath' = r.realPath
               /\ last' = [op |-> "toChild", arg |-> component, result |-> r.status]
    /\ walk' = IF Len(walk) = 2 /\ component = <<"b">>
               THEN Append(walk, last'.result) ELSE Off
    /\ UNCHANGED <<files, dirs, requirerPath>>
    /\ UNCHANGED cfgVars
    /\ UNCHANGED wsVars

\* Luau::FileUtils::readFile on the navigator's filesystem: the file's raw
\* contents, or std::nullopt
readFileResult(path) == IF isFile(path) THEN "contents" ELSE "nullopt"

\* what a call of getConfig() can end with, as [arg, result]: the file read
\* and what came of it.  With status PresentJson or PresentLuau it is the read
\* of the matching file.  Otherwise the LUAU_ASSERT fails: a build with
\* assertions aborts; a build without them runs into LUAU_UNREACHABLE(), where
\* the behaviour is undefined and the read of either file can be what runs.
getConfigOutcomes ==
    LET json == getConfigPath(realPath, kConfigName)
        luau == getConfigPath(realPath, kLuauConfigName)
        readOf(path) == [arg |-> path, result |-> readFileResult(path)]
    IN IF getConfigStatus = "PresentJson" THEN { readOf(json) }
       ELSE IF getConfigStatus = "PresentLuau" THEN { readOf(luau) }
       ELSE { [arg |-> EmptyStr, result |-> Aborted], readOf(json), readOf(luau) }

getConfig ==
    /\ Running
    /\ modulePath # EmptyStr     \* the caller positions the cursor before it asks
    /\ \E o \in getConfigOutcomes :
          last' = [op |-> "getConfig", arg |-> o.arg, result |-> o.result]
    /\ walk' = Off
    /\ UNCHANGED <<files, dirs, requirerPath, modulePath, realPath>>
    /\ UNCHANGED cfgVars
    /\ UNCHANGED wsVars

-----------------------------------------------------------------------------
(* Specification of the navigator *)

\* the subsets of S with at most k elements
RECURSIVE SubsetsUpTo(_, _)
SubsetsUpTo(S, k) ==
    IF k = 0 THEN {{}}
    ELSE LET smaller == SubsetsUpTo(S, k - 1) IN
         smaller \cup { s \cup {e} : s \in smaller, e \in S }

NavInit ==
    /\ \E chosen \in SubsetsUpTo(FileUniverse \cup OptionalDirs, MaxEntries) :
          /\ files = chosen \cap FileUniverse
          /\ dirs = BaseDirs \cup (chosen \cap OptionalDirs)
                    \cup { parentDir(f) : f \in chosen \cap FileUniverse }
    /\ requirerPath \in Requirers
    /\ modulePath = EmptyStr
    /\ realPath = EmptyStr
    /\ last = [op |-> "new", arg |-> EmptyStr, result |-> "None"]
    /\ walk = <<>>

\* as NavInit, for every requirer
NavCfgInit ==
    /\ \E chosen \in SubsetsUpTo(FileUniverse \cup OptionalDirs, MaxEntries) :
          /\ files = chosen \cap FileUniverse
          /\ dirs = BaseDirs \cup (chosen \cap OptionalDirs)
                    \cup { parentDir(f) : f \in chosen \cap FileUniverse }
    /\ requirerPath \in AllRequirers
    /\ modulePath = EmptyStr
    /\ realPath = EmptyStr
    /\ last = [op |-> "new", arg |-> EmptyStr, result |-> "None"]
    /\ walk = <<>>

-----------------------------------------------------------------------------
(* WorkspaceFileResolver: the configuration resolver *)

\* at most this many config file creations, edits and deletions
MaxEdits == 2

\* std::filesystem::path on an absolute generic path
has_relative_path(path) == path # Root /\ path # EmptyStr
has_parent_path(path) == findLastSlash(path, Len(path)) > 0
parent_path(path) == parentDir(path)
\* operator/ : appends a separator unless the path ends with one
pathAppend(path, name) ==
    IF path # EmptyStr /\ path[Len(path)] = "/" THEN path \o name
    ELSE path \o Slash \o name

kRobloxRc == <<".robloxrc">>

CfgDirs == { Root, <<"/", "a">>, <<"/", "a", "/", "b">> }
CfgNames == { kConfigName, kRobloxRc }
CfgFiles == { pathAppend(d, n) : d \in CfgDirs, n \in CfgNames }

\* std::nullopt of readFile: no such file
NoFile == <<"nullopt">>
\* alias @x is not defined
NoAlias == <<>>

\* Luau::Config: the language mode and the location of alias @x
defaultConfig == [mode |-> "nonstrict", alias |-> NoAlias]

\* Contents of a config file: the entries it holds, in order.  An entry sets
\* the mode, defines alias @x, is a lint setting in the legacy syntax that
\* only compat parsing accepts, or is malformed.
cStrict == <<"mode:strict">>
cAlias == <<"alias:x">>
cBad == <<"mode:nocheck", "malformed">>
cLegacy == <<"mode:nocheck", "lint:legacy">>
Contents == { cStrict, cAlias, cBad, cLegacy }

\* Luau::parseConfig: entries are merged into result one by one; the first
\* entry that fails ends the parse with an error, the earlier ones stay merged
RECURSIVE parseEntries(_, _, _, _, _)
parseEntries(contents, i, result, configLocation, compat) ==
    IF i > Len(contents) THEN [error |-> FALSE, result |-> result]
    ELSE LET e == contents[i] IN
         IF e = "mode:strict" THEN
             parseEntries(contents, i + 1, [result EXCEPT !.mode = "strict"],
                          configLocation, compat)
         ELSE IF e = "mode:nocheck" THEN
             parseEntries(contents, i + 1, [result EXCEPT !.mode = "nocheck"],
                          configLocation, compat)
         ELSE IF e = "alias:x" THEN
             parseEntries(contents, i + 1, [result EXCEPT !.alias = configLocation],
                          configLocation, compat)
         ELSE IF e = "lint:legacy" /\ compat THEN
             parseEntries(contents, i + 1, result, configLocation, compat)
         ELSE [error |-> TRUE, result |-> result]

parseConfig(configPath, contents, result, compat) ==
    parseEntries(contents, 1, result, parent_path(configPath), compat)

readFile(path) == IF path \in DOMAIN disk THEN disk[path] ELSE NoFile

\* fault: a failed parse publishes nothing
publishForSuccessOnly(configUri, error) ==
    IF client /\ ~error
    THEN << [uri |-> configUri, diagnostics |-> <<>>] >>
    ELSE <<>>

\* fault: a successful parse publishes nothing
publishForErrorsOnly(configUri, error) ==
    IF client /\ error
    THEN << [uri |-> configUri, diagnostics |-> <<"Error">>] >>
    ELSE <<>>

\* the diagnostics event of one parsed config file, if a client is attached
publishFor(configUri, error) ==
    IF client
    THEN << [uri |-> configUri,
             diagnostics |-> IF error THEN <<"Error">> ELSE <<>>] >>
    ELSE <<>>

\* fault: storing an entry drops the entries stored before
cacheWithOnly(cache, key, value) == [k \in {key} |-> value]

cacheWith(cache, key, value) ==
    [k \in DOMAIN cache \cup {key} |-> IF k = key THEN value ELSE cache[k]]

RECURSIVE readConfigRec(_, _)

\* fault: the memoized entry is never used
cacheHitNever(path, cache) == FALSE

\* the memoized entry is returned when there is one
cacheHit(path, cache) == path \in DOMAIN cache

\* fault: every directory starts from the process default
inheritedConfigNone(path, cache) ==
    [cache |-> cache, ret |-> defaultConfig, pubs |-> <<>>]

\* the config a directory starts from: its parent's resolved config, or the
\* process default at the filesystem root
inheritedConfig(path, cache) ==
    IF has_relative_path(path) /\ has_parent_path(path)
    THEN readConfigRec(parent_path(path), cache)
    ELSE [cache |-> cache, ret |-> defaultConfig, pubs |-> <<>>]

\* fault: a primary file that fails to parse falls back to the legacy file
localConfigFallback(path, base) ==
    LET configPath == pathAppend(path, kConfigName)
        robloxRcPath == pathAppend(path, kRobloxRc)
        primary == parseConfig(configPath, readFile(configPath), base, FALSE)
    IN IF readFile(configPath) # NoFile /\ ~primary.error THEN
           [result |-> primary.result, pubs |-> publishFor(configPath, FALSE)]
       ELSE IF readFile(robloxRcPath) # NoFile THEN
           LET r == parseConfig(robloxRcPath, readFile(robloxRcPath), base, TRUE)
           IN [result |-> r.result, pubs |-> publishFor(robloxRcPath, r.error)]
       ELSE IF readFile(configPath) # NoFile THEN
           [result |-> primary.result, pubs |-> publishFor(configPath, TRUE)]
       ELSE [result |-> base, pubs |-> <<>>]

\* fault: the filesystem root's own config file is not read
localConfigNotAtRoot(path, base) ==
    LET configPath == pathAppend(path, kConfigName)
        robloxRcPath == pathAppend(path, kRobloxRc)
    IN IF path = Root THEN [result |-> base, pubs |-> <<>>]
       ELSE IF readFile(configPath) # NoFile THEN
           LET r == parseConfig(configPath, readFile(configPath), base, FALSE)
           IN [result |-> r.result, pubs |-> publishFor(configPath, r.error)]
       ELSE IF readFile(robloxRcPath) # NoFile THEN
           LET r == parseConfig(robloxRcPath, readFile(robloxRcPath), base, TRUE)
           IN [result |-> r.result, pubs |-> publishFor(robloxRcPath, r.error)]
       ELSE [result |-> base, pubs |-> <<>>]

\* the directory's own config file merged into base: the primary file, else
\* the legacy file, else nothing
localConfig(path, base) ==
    LET configPath == pathAppend(path, kConfigName)
        robloxRcPath == pathAppend(path, kRobloxRc)
    IN IF readFile(configPath) # NoFile THEN
           LET r == parseConfig(configPath, readFile(configPath), base, FALSE)
           IN [result |-> r.result, pubs |-> publishFor(configPath, r.error)]
       ELSE IF readFile(robloxRcPath) # NoFile THEN
           LET r == parseConfig(robloxRcPath, readFile(robloxRcPath), base, TRUE)
           IN [result |-> r.result, pubs |-> publishFor(robloxRcPath, r.error)]
       ELSE [result |-> base, pubs |-> <<>>]

\* readConfigRec(path) on cache: the cache afterwards, the value returned and
\* the diagnostics events published, in order
readConfigRec(path, cache) ==
    IF cacheHit(path, cache)
    THEN [cache |-> cache, ret |-> cache[path], pubs |-> <<>>]
    ELSE LET up == inheritedConfig(path, cache)
             local == localConfig(path, up.ret)
         IN [cache |-> cacheWith(up.cache, path, local.result),
             ret |-> local.result,
             pubs |-> up.pubs \o local.pubs]

EmptyCache == << >>

\* no diagnostics event was published for the URI yet
NeverPublished == <<"never">>

\* the diagnostics shown per URI after the events pubs, in order
RECURSIVE applyPublishes(_, _, _)
applyPublishes(shown, pubs, i) ==
    IF i > Len(pubs) THEN shown
    ELSE applyPublishes([shown EXCEPT ![pubs[i].uri] = pubs[i].diagnostics],
                        pubs, i + 1)

\* the config file readConfigRec reads for a directory: the primary file, else
\* the legacy file, else none
configFileOf(path) ==
    IF readFile(pathAppend(path, kConfigName)) # NoFile
    THEN pathAppend(path, kConfigName)
    ELSE IF readFile(pathAppend(path, kRobloxRc)) # NoFile
    THEN pathAppend(path, kRobloxRc)
    ELSE NoFile

\* a request readConfigRec(dir); was: what was shown for the directory's
\* config file when the request was made
ReadConfigRec(dir) ==
    LET r == readConfigRec(dir, configCache) IN
    /\ configCache' = r.cache
    /\ events' = r.pubs
    /\ diagnostics' = applyPublishes(diagnostics, r.pubs, 1)
    /\ req' = [op |-> "read", dir |-> dir, ret |-> r.ret,
               hit |-> dir \in DOMAIN configCache,
               cold |-> configCache = EmptyCache,
               was |-> IF configFileOf(dir) = NoFile THEN NeverPublished
                       ELSE diagnostics[configFileOf(dir)],
               name |-> EmptyStr]
    /\ UNCHANGED <<disk, client, edits>>
    /\ UNCHANGED navVars
    /\ UNCHANGED wsVars

\* fault: the entry of the filesystem root survives the clear
clearConfigCacheKeepsRoot ==
    /\ configCache' = [d \in DOMAIN configCache \cap {Root} |-> configCache[d]]
    /\ events' = <<>>
    /\ req' = [op |-> "clear", dir |-> EmptyStr, ret |-> defaultConfig, hit |-> FALSE,
           cold |-> FALSE, was |-> NeverPublished,
           name |-> EmptyStr]
    /\ UNCHANGED <<disk, client, diagnostics, edits>>
    /\ UNCHANGED navVars
    /\ UNCHANGED wsVars

clearConfigCache ==
    /\ configCache' = EmptyCache
    /\ events' = <<>>
    /\ req' = [op |-> "clear", dir |-> EmptyStr, ret |-> defaultConfig, hit |-> FALSE,
           cold |-> FALSE, was |-> NeverPublished,
           name |-> EmptyStr]
    /\ UNCHANGED <<disk, client, diagnostics, edits>>
    /\ UNCHANGED navVars
    /\ UNCHANGED wsVars

\* the file-watching collaborator's world: a config file is created or edited
WriteConfigFile(f, contents) ==
    /\ edits < MaxEdits
    /\ readFile(f) # contents
    /\ disk' = [disk EXCEPT ![f] = contents]
    /\ edits' = edits + 1
    /\ events' = <<>>
    /\ req' = [op |-> "write", dir |-> parent_path(f), ret |-> defaultConfig,
               hit |-> FALSE, cold |-> FALSE, was |-> NeverPublished,
           name |-> EmptyStr]
    /\ UNCHANGED <<configCache, client, diagnostics>>
    /\ UNCHANGED navVars
    /\ UNCHANGED wsVars

DeleteConfigFile(f) ==
    /\ edits < MaxEdits
    /\ readFile(f) # NoFile
    /\ disk' = [disk EXCEPT ![f] = NoFile]
    /\ edits' = edits + 1
    /\ events' = <<>>
    /\ req' = [op |-> "delete", dir |-> parent_path(f), ret |-> defaultConfig,
               hit |-> FALSE, cold |-> FALSE, was |-> NeverPublished,
           name |-> EmptyStr]
    /\ UNCHANGED <<configCache, client, diagnostics>>
    /\ UNCHANGED navVars
    /\ UNCHANGED wsVars

\* a change of a config file has not been followed by a resolution yet
ChangePending == req.op \in {"write", "delete"}

\* a config file is created or edited while the resolver is in step with the
\* disk
WatchedWrite(f, contents) ==
    /\ ~ChangePending
    /\ WriteConfigFile(f, contents)

\* a config file is deleted while the resolver is in step with the disk
WatchedDelete(f) ==
    /\ ~ChangePending
    /\ DeleteConfigFile(f)

\* the resolver as the server drives it after a config file changed:
\* clearConfigCache(), then a resolution of the file's directory
ResolveAfterChange ==
    LET r == readConfigRec(req.dir, EmptyCache) IN
    /\ ChangePending
    /\ configCache' = r.cache
    /\ events' = r.pubs
    /\ diagnostics' = applyPublishes(diagnostics, r.pubs, 1)
    /\ req' = [op |-> "resolved", dir |-> req.dir, ret |-> r.ret,
               hit |-> FALSE, cold |-> TRUE,
               was |-> IF req.op = "delete" THEN <<"deleted">>
                       ELSE <<"written">>,
               name |-> EmptyStr]
    /\ UNCHANGED <<disk, client, edits>>
    /\ UNCHANGED navVars
    /\ UNCHANGED wsVars

CfgInit ==
    /\ disk = [f \in CfgFiles |-> NoFile]
    /\ configCache = EmptyCache
    /\ client \in BOOLEAN
    /\ diagnostics = [f \in CfgFiles |-> NeverPublished]
    /\ events = <<>>
    /\ req = [op |-> "new", dir |-> EmptyStr, ret |-> defaultConfig, hit |-> FALSE,
           cold |-> FALSE, was |-> NeverPublished,
           name |-> EmptyStr]
    /\ edits = 0

-----------------------------------------------------------------------------
(* WorkspaceFileResolver: module names and URIs *)

\* std::nullopt of the platform's mapping functions
NoPath == <<"nullopt">>

\* Uri::file: a file URI holds the path with one kind of separator
UriFile(path) == [scheme |-> "file", path |-> backslashesToSlashes(path)]
\* Uri::fsPath().generic_string()
fsPathGeneric(uri) == backslashesToSlashes(uri.path)
\* Uri::toString
uriToString(uri) == <<uri.scheme, ":">> \o uri.path

\* real file paths a request can name, module names the platform calls virtual
RealA == <<"/", "proj", "/", "src", "/", "a", ".luau">>
RealB == <<"/", "proj", "\\", "src", "/", "b", ".luau">>
RealPaths == { RealA, RealB }
VirtualNames == { <<"game", "/", "A">>, <<"game", "/", "B">> }
ModuleNames == VirtualNames \cup { backslashesToSlashes(p) : p \in RealPaths }
UntitledUri == [scheme |-> "untitled", path |-> <<"Untitled-1">>]
Uris == { UriFile(p) : p \in RealPaths } \cup { UntitledUri }

\* the platform's mapping functions, read from the mapping it was built with
resolveToVirtualPath(realPathString) ==
    IF realPathString \in DOMAIN platform.toVirtual
    THEN platform.toVirtual[realPathString] ELSE NoPath
isVirtualPath(name) == name \in platform.virtual
resolveToRealPath(name) ==
    IF name \in DOMAIN platform.toReal THEN platform.toReal[name] ELSE name

getModuleName(name) ==
    IF name.scheme # "file" THEN uriToString(name)
    ELSE LET fsPath == fsPathGeneric(name)
             virtualPath == resolveToVirtualPath(fsPath)
         IN IF virtualPath # NoPath THEN virtualPath ELSE fsPath

\* fault: the platform is not asked, every name is taken for a file path
getUriDirect(moduleName) == UriFile(moduleName)

getUri(moduleName) ==
    IF isVirtualPath(moduleName) /\ resolveToRealPath(moduleName) # NoPath
    THEN UriFile(resolveToRealPath(moduleName))
    ELSE UriFile(moduleName)

getTextDocument(uri) == uri \in managedFiles

GetModuleName(uri) ==
    /\ reply' = [op |-> "getModuleName", arg |-> uri, ret |-> getModuleName(uri)]
    /\ UNCHANGED <<platform, managedFiles>>
    /\ UNCHANGED navVars
    /\ UNCHANGED cfgVars

GetUri(moduleName) ==
    /\ reply' = [op |-> "getUri", arg |-> moduleName, ret |-> getUri(moduleName)]
    /\ UNCHANGED <<platform, managedFiles>>
    /\ UNCHANGED navVars
    /\ UNCHANGED cfgVars

\* what the caller of a definition request gets: the request fails with a
\* JsonRpcException when the URI has no managed text document; otherwise the
\* type checker's answer decides between no location and some locations
JsonRpcException == "JsonRpcException"

\* fault: a URI without managed text document gets the empty result
gotoDefinitionOutcomesLenient(uri) ==
    IF ~getTextDocument(uri) THEN {"empty"} ELSE {"empty", "locations"}

gotoDefinitionOutcomes(uri) ==
    IF ~getTextDocument(uri) THEN {JsonRpcException} ELSE {"empty", "locations"}

gotoTypeDefinitionOutcomes(uri) ==
    IF ~getTextDocument(uri) THEN {JsonRpcException} ELSE {"empty", "locations"}

gotoDefinition(uri) ==
    /\ \E o \in gotoDefinitionOutcomes(uri) :
          reply' = [op |-> "gotoDefinition", arg |-> uri, ret |-> o]
    /\ UNCHANGED <<platform, managedFiles>>
    /\ UNCHANGED navVars
    /\ UNCHANGED cfgVars

gotoTypeDefinition(uri) ==
    /\ \E o \in gotoTypeDefinitionOutcomes(uri) :
          reply' = [op |-> "gotoTypeDefinition", arg |-> uri, ret |-> o]
    /\ UNCHANGED <<platform, managedFiles>>
    /\ UNCHANGED navVars
    /\ UNCHANGED cfgVars

WsInit ==
    /\ \E toVirtual \in [ { backslashesToSlashes(p) : p \in RealPaths }
                            -> VirtualNames \cup {NoPath} ],
          toReal \in [ VirtualNames -> RealPaths \cup {NoPath} ],
          virtual \in SUBSET ModuleNames :
          platform = [toVirtual |-> toVirtual, toReal |-> toReal, virtual |-> virtual]
    /\ managedFiles \in { {}, {UriFile(RealA)} }
    /\ reply = [op |-> "new", arg |-> EmptyStr, ret |-> EmptyStr]

\* the state of the facade in the specifications that do not exercise it
WsIdle ==
    /\ platform = [toVirtual |-> [p \in { backslashesToSlashes(q) : q \in RealPaths }
                                     |-> NoPath],
                   toReal |-> [v \in VirtualNames |-> NoPath],
                   virtual |-> {}]
    /\ managedFiles = {}
    /\ reply = [op |-> "new", arg |-> EmptyStr, ret |-> EmptyStr]

-----------------------------------------------------------------------------
(* WorkspaceFileResolver::getConfig *)

\* isInitLuauFile: the file name is init.luau or init.lua
isInitLuauFile(path) ==
    SubSeq(path, findLastSlash(path, Len(path)) + 1, Len(path))
        \in { <<"init", ".luau">>, <<"init", ".lua">> }

\* module names of the requests: files below /a and /a/b, an init file of
\* /a/b and one of /, the root, relative paths, and a virtual path that the
\* platform resolves to no file
NameInA == <<"/", "a", "/", "m", ".luau">>
NameInAB == <<"/", "a", "/", "b", "/", "m", ".lua">>
NameInitAB == <<"/", "a", "/", "b", "/", "init", ".luau">>
NameInitRoot == <<"/", "init", ".luau">>
NameRelative == <<"m", ".luau">>
NameInitRelative == <<"d", "/", "init", ".lua">>
NameVirtual == <<"game", "/", "A">>
ConfigNames == { NameInA, NameInAB, NameInitAB, NameInitRoot, Root,
                 NameRelative, NameInitRelative, NameVirtual }

\* the directory getConfig resolves for a module name; NoPath stands for the
\* returns of defaultConfig
configBase(name) ==
    LET real == resolveToRealPath(name) IN
    IF real = NoPath \/ ~has_relative_path(real) \/ ~has_parent_path(real)
    THEN NoPath
    ELSE LET base == parent_path(real) IN
         IF isInitLuauFile(real)
         THEN IF has_parent_path(base) THEN parent_path(base) ELSE NoPath
         ELSE base

\* a request getConfig(name)
GetConfig(name) ==
    LET base == configBase(name) IN
    /\ IF base = NoPath
       THEN /\ req' = [op |-> "getConfig", dir |-> NoPath, ret |-> defaultConfig,
                       hit |-> FALSE, cold |-> configCache = EmptyCache,
                       was |-> NeverPublished, name |-> name]
            /\ events' = <<>>
            /\ UNCHANGED <<configCache, diagnostics>>
       ELSE LET r == readConfigRec(base, configCache) IN
            /\ configCache' = r.cache
            /\ events' = r.pubs
            /\ diagnostics' = applyPublishes(diagnostics, r.pubs, 1)
            /\ req' = [op |-> "getConfig", dir |-> base, ret |-> r.ret,
                       hit |-> base \in DOMAIN configCache,
                       cold |-> configCache = EmptyCache,
                       was |-> IF configFileOf(base) = NoFile THEN NeverPublished
                               ELSE diagnostics[configFileOf(base)],
                       name |-> name]
    /\ UNCHANGED <<disk, client, edits>>
    /\ UNCHANGED navVars
    /\ UNCHANGED wsVars

-----------------------------------------------------------------------------
(* Specifications *)

\* the state of the part a specification does not exercise
NavIdle ==
    /\ files = {}
    /\ dirs = BaseDirs
    /\ requirerPath = RequirerA
    /\ modulePath = EmptyStr
    /\ realPath = EmptyStr
    /\ last = [op |-> "new", arg |-> EmptyStr, result |-> "None"]
    /\ walk = <<>>

CfgIdle ==
    /\ disk = [f \in CfgFiles |-> NoFile]
    /\ configCache = EmptyCache
    /\ client = TRUE
    /\ diagnostics = [f \in CfgFiles |-> NeverPublished]
    /\ events = <<>>
    /\ req = [op |-> "new", dir |-> EmptyStr, ret |-> defaultConfig, hit |-> FALSE,
           cold |-> FALSE, was |-> NeverPublished,
           name |-> EmptyStr]
    /\ edits = 0

Init == NavInit /\ CfgIdle /\ WsIdle

Next ==
    \/ \E r \in Requirers : Construct(r)
    \/ resetToRequirer
    \/ \E path \in AliasPaths : jumpToAlias(path)
    \/ toParent
    \/ \E component \in Components : toChild(component)

Spec == Init /\ [][Next]_vars

\* the walk up from the requirer or from an alias, to the filesystem root,
\* with the config file read at each position and the steps that are rejected
NextNavCfg ==
    \/ resetToRequirer
    \/ \E path \in AliasPaths \cup {RootAlias} : jumpToAlias(path)
    \/ toParent
    \/ toChild(<<".config">>)
    \/ getConfig

InitNavCfg == NavCfgInit /\ CfgIdle /\ WsIdle

SpecNavCfg == InitNavCfg /\ [][NextNavCfg]_vars

InitCfg == NavIdle /\ CfgInit /\ WsIdle

NextCfg ==
    \/ \E d \in CfgDirs : ReadConfigRec(d)
    \/ clearConfigCache
    \/ \E f \in CfgFiles, c \in Contents : WriteConfigFile(f, c)
    \/ \E f \in CfgFiles : DeleteConfigFile(f)

SpecCfg == InitCfg /\ [][NextCfg]_vars

\* the resolver as the type checker uses it: through getConfig(name), with
\* primary config files that parse
NextGetCfg ==
    \/ \E name \in ConfigNames : GetConfig(name)
    \/ clearConfigCache
    \/ \E d \in CfgDirs, c \in {cStrict, cAlias} :
          WriteConfigFile(pathAppend(d, kConfigName), c)
    \/ \E d \in CfgDirs : DeleteConfigFile(pathAppend(d, kConfigName))

SpecGetCfg == InitCfg /\ [][NextGetCfg]_vars

\* the resolver kept in step with the disk: every change of a config file is
\* followed by a clear and a resolution of its directory
NextWatched ==
    \/ \E f \in CfgFiles, c \in Contents : WatchedWrite(f, c)
    \/ \E f \in CfgFiles : WatchedDelete(f)
    \/ ResolveAfterChange

SpecWatched == InitCfg /\ [][NextWatched]_vars

\* the navigator and the resolver over one filesystem: the config files of
\* /proj/src and /proj under the names either of them looks for
SharedDirs == { Src, Proj }
SharedNames == { kConfigName, kLuauConfigName, kRobloxRc }
SharedConfigFiles == { pathAppend(d, n) : d \in SharedDirs, n \in SharedNames }

SharedInit ==
    /\ \E chosen \in SUBSET SharedConfigFiles, c \in {cStrict, cAlias} :
          /\ files = {RequirerA} \cup chosen
          /\ disk = [f \in SharedConfigFiles |->
                       IF f \in chosen THEN c ELSE NoFile]
    /\ dirs = BaseDirs
    /\ requirerPath = RequirerA
    /\ modulePath = EmptyStr
    /\ realPath = EmptyStr
    /\ last = [op |-> "new", arg |-> EmptyStr, result |-> "None"]
    /\ walk = <<>>
    /\ configCache = EmptyCache
    /\ client \in BOOLEAN
    /\ diagnostics = [f \in SharedConfigFiles |-> NeverPublished]
    /\ events = <<>>
    /\ req = [op |-> "new", dir |-> EmptyStr, ret |-> defaultConfig, hit |-> FALSE,
              cold |-> FALSE, was |-> NeverPublished, name |-> EmptyStr]
    /\ edits = 0
    /\ WsIdle

NextShared ==
    \/ resetToRequirer
    \/ toParent
    \/ \E c \in { <<"src">>, <<"a">> } : toChild(c)
    \/ \E d \in SharedDirs : ReadConfigRec(d)
    \/ clearConfigCache

SpecShared == SharedInit /\ [][NextShared]_vars

InitWs == NavIdle /\ CfgIdle /\ WsInit

NextWs ==
    \/ \E uri \in Uris : GetModuleName(uri)
    \/ \E name \in ModuleNames : GetUri(name)
    \/ \E uri \in Uris : gotoDefinition(uri)
    \/ \E uri \in Uris : gotoTypeDefinition(uri)

SpecWs == InitWs /\ [][NextWs]_vars

-----------------------------------------------------------------------------
(* Properties of the navigator (specification Spec) *)

\* the step taken reached updateRealPaths: it was not rejected beforehand
StepProjected ==
    \/ last'.op = "resetToRequirer"
    \/ last'.op = "jumpToAlias" /\ isAbsolutePath(last'.arg)
    \/ last'.op = "toParent" /\ modulePath # Root /\ countSlashes(modulePath) > 1
    \/ last'.op = "toChild" /\ last'.arg # <<".config">>

\* neither p.luau nor p.lua is a file and p is not a directory
NoCandidate(p) ==
    /\ ~isFile(p \o <<".luau">>)
    /\ ~isFile(p \o <<".lua">>)
    /\ ~isDirectory(p)

\* the cursor is on directory D and both D/x.luau and D/x.lua are files
BothSuffixesBelow(D, x) ==
    /\ isDirectory(D)
    /\ isFile(D \o Slash \o x \o <<".luau">>)
    /\ isFile(D \o Slash \o x \o <<".lua">>)

\* C1, as stated: from a directory D holding both D/x.luau and D/x.lua,
\* toChild(x) returns Ambiguous, for every component name x.
C1_AsStated ==
    [][ \A x \in Components :
          (last'.op = "toChild" /\ last'.arg = x /\ BothSuffixesBelow(modulePath, x))
          => last'.result = Ambiguous ]_vars

\* C1, amended: from a directory D holding both D/x.luau and D/x.lua,
\* toChild(x) returns Ambiguous for every component name x other than "init"
\* (whose suffix files are not probed) and ".config" (rejected with NotFound).
C1_AmbiguousChild ==
    [][ \A x \in Components \ { <<"init">>, <<".config">> } :
          (last'.op = "toChild" /\ last'.arg = x /\ BothSuffixesBelow(modulePath, x))
          => last'.result = Ambiguous ]_vars

C1_Witness ==
    /\ last.op = "toChild"
    /\ last.arg = <<"b">>
    /\ modulePath = Src \o <<"/", "b">>
    /\ BothSuffixesBelow(Src, <<"b">>)
    /\ last.result = Ambiguous

\* C2, as stated: a step that moves the cursor to a logical path without any
\* candidate on disk returns NotFound.
C2_AsStated ==
    [][ (StepProjected /\ NoCandidate(modulePath')) => last'.result = NotFound ]_vars

\* C2, amended: a step that moves the cursor to a logical path p without any
\* candidate on disk returns Success; the projection of p is NotFound, the
\* resolved path becomes empty and the module is not present.
C2_NoCandidateSucceeds ==
    [][ (StepProjected /\ NoCandidate(modulePath'))
        => /\ getRealPath(modulePath').status = NotFound
           /\ last'.result = Success
           /\ realPath' = EmptyStr
           /\ ~isFile(realPath') ]_vars

C2_Witness ==
    /\ last.op = "toChild"
    /\ last.arg = <<"b">>
    /\ modulePath = Src \o <<"/", "b">>
    /\ NoCandidate(modulePath)
    /\ last.result = Success
    /\ realPath = EmptyStr

\* C3: toParent from a logical path of at least two segments whose parent is
\* ambiguous as a navigation target returns Success.
C3_ParentAmbiguityDemoted ==
    [][ ( /\ last'.op = "toParent"
          /\ countSlashes(modulePath) >= 2
          /\ getRealPath(normalizePath(modulePath \o <<"/", "..">>)).status = Ambiguous )
        => (last'.result = Success /\ last'.result # Ambiguous) ]_vars

C3_Witness ==
    /\ last.op = "toParent"
    /\ modulePath = Src
    /\ getRealPath(modulePath).status = Ambiguous
    /\ last.result = Success

\* C4: toChild(".config") returns NotFound in every cursor state, whatever
\* the filesystem holds.
C4_ConfigChildNotFound ==
    (last.op = "toChild" /\ last.arg = <<".config">>) => last.result = NotFound

C4_Witness ==
    /\ last.op = "toChild"
    /\ last.arg = <<".config">>
    /\ modulePath = Src
    /\ isFile(Src \o <<"/", ".config", ".luau">>)
    /\ isDirectory(Src \o <<"/", ".config">>)
    /\ last.result = NotFound

\* the cursor stands on D/pkg after toChild("pkg"), D/pkg is a directory
\* holding init.luau and D/pkg.luau is no file
PkgWithInit ==
    /\ last.op = "toChild"
    /\ last.arg = <<"pkg">>
    /\ isDirectory(modulePath)
    /\ isFile(modulePath \o kInitSuffixes[1])
    /\ ~isFile(modulePath \o <<".luau">>)

\* C5, as stated: with directory D/pkg holding init.luau and no D/pkg.luau,
\* toChild("pkg") returns Success and resolves to D/pkg/init.luau.
C5_AsStated ==
    PkgWithInit =>
        (last.result = Success /\ getResolvedPath = modulePath \o kInitSuffixes[1])

\* C5, amended: with directory D/pkg holding init.luau and not init.lua, and
\* neither D/pkg.luau nor D/pkg.lua a file, toChild("pkg") returns Success
\* and resolves to D/pkg/init.luau.
C5_InitFileResolved ==
    ( /\ PkgWithInit
      /\ ~isFile(modulePath \o <<".lua">>)
      /\ ~isFile(modulePath \o kInitSuffixes[2]) )
    => (last.result = Success /\ getResolvedPath = modulePath \o kInitSuffixes[1])

C5_Witness ==
    /\ PkgWithInit
    /\ modulePath = Src \o <<"/", "pkg">>
    /\ last.result = Success
    /\ getResolvedPath = Src \o <<"/", "pkg", "/", "init", ".luau">>

\* the walk resetToRequirer(); toParent(); toChild("b") was made on a new
\* cursor for /proj/src/a.luau, and /proj/src/b.luau is the only candidate
WalkToB ==
    /\ requirerPath = RequirerA
    /\ Len(walk) = 3
    /\ isFile(Src \o <<"/", "b", ".luau">>)
    /\ ~isFile(Src \o <<"/", "b", ".lua">>)
    /\ ~isDirectory(Src \o <<"/", "b">>)

StepRejected ==
    \/ last'.op = "toParent" /\ (modulePath = Root \/ countSlashes(modulePath) = 1)
    \/ last'.op = "jumpToAlias" /\ ~isAbsolutePath(last'.arg)
    \/ last'.op = "toChild" /\ last'.arg = <<".config">>

\* C14: toParent() on a logical path of one segment (one "/", or the path
\* "/"), jumpToAlias(p) with p not absolute and toChild(".config") return
\* NotFound and leave modulePath and realPath as they were.
C14_RejectedStepKeepsCursor ==
    [][ StepRejected
        => /\ last'.result = NotFound
           /\ modulePath' = modulePath
           /\ realPath' = realPath ]_vars

C14_Witness ==
    /\ last.op = "toParent"
    /\ last.result = NotFound
    /\ modulePath = Root
    /\ realPath = Root

\* the last call was a step that projected the logical path it moved to
LastStepProjected ==
    \/ last.op = "resetToRequirer"
    \/ last.op = "jumpToAlias" /\ isAbsolutePath(last.arg)
    \/ last.op = "toChild" /\ last.arg # <<".config">>

\* those of p.luau, p.lua, p/init.luau and p/init.lua that are files
CandidateFiles(p) ==
    { c \in { p \o <<".luau">>, p \o <<".lua">>,
              p \o kInitSuffixes[1], p \o kInitSuffixes[2] } : isFile(c) }

\* those of p.luau and p.lua that are files and that the projection probes
SuffixFiles(p) ==
    IF SubSeq(p, findLastSlash(p, Len(p)) + 1, Len(p)) = <<"init">> THEN {}
    ELSE { c \in { p \o <<".luau">>, p \o <<".lua">> } : isFile(c) }

InitFiles(p) ==
    { c \in { p \o kInitSuffixes[1], p \o kInitSuffixes[2] } : isFile(c) }

\* C18, as stated: a navigation step returns Ambiguous only if at least two
\* of p.luau, p.lua, p/init.luau, p/init.lua exist for the target p; a single
\* file p.luau next to a directory p without init file is not Ambiguous.
C18_AsStated ==
    last.result = Ambiguous => Cardinality(CandidateFiles(modulePath)) >= 2

\* C18, amended: the directory p is a candidate too.  A step that projects
\* its target p returns Ambiguous exactly when both p.luau and p.lua exist,
\* or one of them exists and p is a directory (with or without init file),
\* or p is a directory holding both init.luau and init.lua; toParent never
\* returns Ambiguous.
C18_AmbiguousExactly ==
    /\ LastStepProjected =>
          (last.result = Ambiguous
           <=> \/ Cardinality(SuffixFiles(modulePath)) = 2
               \/ isDirectory(modulePath) /\ SuffixFiles(modulePath) # {}
               \/ isDirectory(modulePath) /\ Cardinality(InitFiles(modulePath)) = 2)
    /\ last.op = "toParent" => last.result # Ambiguous

C18_Witness ==
    /\ last.op = "toChild"
    /\ last.arg = <<"pkg">>
    /\ modulePath = Src \o <<"/", "pkg">>
    /\ isDirectory(modulePath)
    /\ CandidateFiles(modulePath) = { modulePath \o <<".luau">> }
    /\ last.result = Ambiguous

\* p is a directory without init file, and neither p.luau nor p.lua exists
BareDirectory(p) ==
    /\ isDirectory(p)
    /\ CandidateFiles(p) = {}

\* the last call moved the cursor to the bare directory it stands on
SteppedOnBareDirectory ==
    /\ LastStepProjected \/ (last.op = "toParent" /\ last.result # NotFound)
    /\ BareDirectory(modulePath)

\* C19, as stated: a step to a directory p without init file, with neither
\* p.luau nor p.lua, returns Success, the resolved path is p, which is not
\* empty, and the module is present.
C19_AsStated ==
    SteppedOnBareDirectory =>
        /\ last.result = Success
        /\ getResolvedPath = modulePath
        /\ getResolvedPath # EmptyStr
        /\ isModulePresent

\* C19, amended: a step to a directory p without init file, with neither
\* p.luau nor p.lua, returns Success and the resolved path is p, which is not
\* empty; the module is not present, since the resolved path is no file.
C19_BareDirectory ==
    SteppedOnBareDirectory =>
        /\ last.result = Success
        /\ getResolvedPath = modulePath
        /\ getResolvedPath # EmptyStr
        /\ ~isModulePresent

C19_Witness ==
    /\ last.op = "toChild"
    /\ last.arg = <<"pkg">>
    /\ modulePath = Src \o <<"/", "pkg">>
    /\ BareDirectory(modulePath)
    /\ last.result = Success
    /\ getResolvedPath = Src \o <<"/", "pkg">>
    /\ ~isModulePresent

-----------------------------------------------------------------------------
(* Properties of the configuration resolver (specification SpecCfg) *)

DirA == <<"/", "a">>
DirAB == <<"/", "a", "/", "b">>

\* the directory holds neither the primary nor the legacy config file
NoLocalConfig(d) ==
    /\ readFile(pathAppend(d, kConfigName)) = NoFile
    /\ readFile(pathAppend(d, kRobloxRc)) = NoFile

BothFormats(d) ==
    /\ readFile(pathAppend(d, kConfigName)) # NoFile
    /\ readFile(pathAppend(d, kRobloxRc)) # NoFile

\* a is d or a directory above d
IsAncestorOrSelf(a, d) ==
    \/ a = d
    \/ a = Root
    \/ Len(a) < Len(d) /\ SubSeq(d, 1, Len(a)) = a /\ d[Len(a) + 1] = "/"

\* what a resolution of d on an empty cache returns for the disk as it is
FreshConfig(d) == readConfigRec(d, EmptyCache).ret

ParentResolved(d) ==
    IF d = Root THEN defaultConfig ELSE FreshConfig(parentDir(d))

\* C7: a directory without local config file resolves, on an empty cache, to
\* exactly its parent's resolved config, and to the process default when no
\* directory up to the root has a config file.
C7_InheritsParent ==
    /\ \A d \in CfgDirs : NoLocalConfig(d) => FreshConfig(d) = ParentResolved(d)
    /\ \A d \in CfgDirs :
          (\A a \in CfgDirs : IsAncestorOrSelf(a, d) => NoLocalConfig(a))
          => FreshConfig(d) = defaultConfig
    /\ (req.op = "read" /\ req.cold /\ NoLocalConfig(req.dir))
       => req.ret = ParentResolved(req.dir)

C7_Witness ==
    /\ req.op = "read"
    /\ req.cold
    /\ req.dir = DirAB
    /\ NoLocalConfig(DirAB)
    /\ ~NoLocalConfig(DirA)
    /\ req.ret # defaultConfig
    /\ req.ret = configCache[DirA]

\* C8: an entry of the cache keeps its value through every request and every
\* change of the config files, and a resolution of its directory returns it,
\* until clearConfigCache is called.
C8_CacheImmutable ==
    [][ \A d \in DOMAIN configCache :
          req'.op # "clear"
          => /\ d \in DOMAIN configCache'
             /\ configCache'[d] = configCache[d]
             /\ (req'.op = "read" /\ req'.dir = d) => req'.ret = configCache[d] ]_vars

C8_Witness ==
    /\ req.op = "read"
    /\ req.hit
    /\ req.ret = configCache[req.dir]
    /\ req.ret # FreshConfig(req.dir)

\* C9: clearConfigCache leaves no entry, and the resolution that follows it
\* returns, and stores for the directory and its ancestors, what an empty
\* cache gives for the config files as they are now.
C9_ClearThenFresh ==
    [][ /\ req'.op = "clear" => configCache' = EmptyCache
        /\ (req.op = "clear" /\ req'.op = "read")
           => /\ req'.ret = FreshConfig(req'.dir)
              /\ \A d \in DOMAIN configCache' : configCache'[d] = FreshConfig(d) ]_vars

C9_Witness ==
    /\ req.op = "read"
    /\ req.cold
    /\ req.dir = DirAB
    /\ edits > 0
    /\ diagnostics[pathAppend(Root, kConfigName)] = <<"Error">>
    /\ readFile(pathAppend(Root, kConfigName)) = NoFile
    /\ req.ret = FreshConfig(DirAB)

\* the config a directory's own file was merged into by the last resolution
BaseOf(d) == IF d = Root THEN defaultConfig ELSE configCache[parentDir(d)]

\* C10: a directory holding both the primary and the legacy config file is
\* resolved from the primary file alone, also when the primary file fails to
\* parse: the legacy file is not merged and no diagnostics are published
\* for it.
C10_PrimaryOnly ==
    (req.op = "read" /\ ~req.hit /\ BothFormats(req.dir))
    => LET primary == pathAppend(req.dir, kConfigName)
           legacy == pathAppend(req.dir, kRobloxRc)
       IN /\ req.ret = parseConfig(primary, readFile(primary),
                                   BaseOf(req.dir), FALSE).result
          /\ \A i \in 1..Len(events) : events[i].uri # legacy
          /\ client => (events # <<>> /\ events[Len(events)].uri = primary)

C10_Witness ==
    /\ req.op = "read"
    /\ ~req.hit
    /\ client
    /\ BothFormats(req.dir)
    /\ readFile(pathAppend(req.dir, kConfigName)) = cBad
    /\ readFile(pathAppend(req.dir, kRobloxRc)) = cAlias
    /\ req.ret.alias = NoAlias
    /\ events[Len(events)] = [uri |-> pathAppend(req.dir, kConfigName),
                              diagnostics |-> <<"Error">>]

\* the file exists and the parse the resolver applies to it succeeds
ParsesOk(f) ==
    /\ readFile(f) # NoFile
    /\ ~parseConfig(f, readFile(f), defaultConfig, hasSuffix(f, kRobloxRc)).error

\* the list of events holds the event that clears the diagnostics of f
ClearsDiagnostics(evs, f) ==
    \E i \in 1..Len(evs) : evs[i] = [uri |-> f, diagnostics |-> <<>>]

\* an error is shown for the config file of d, and the file now parses
ErrorShownThenFixed(d) ==
    /\ configFileOf(d) # NoFile
    /\ diagnostics[configFileOf(d)] = <<"Error">>
    /\ ParsesOk(configFileOf(d))

\* C11, as stated: when a resolution has published an error for the config
\* file of d and the file has been fixed, the next resolution of d publishes
\* an event with an empty list for the file.
C11_AsStated ==
    [][ \A d \in CfgDirs :
          (ErrorShownThenFixed(d) /\ req'.op = "read" /\ req'.dir = d)
          => ClearsDiagnostics(events', configFileOf(d)) ]_vars

\* C11, amended: when a resolution has published an error for the config
\* file of d, the file has been fixed and clearConfigCache has been called
\* since (d is not memoized), the next resolution of d publishes an event
\* with an empty list for the file; while d is memoized the resolution
\* publishes nothing and the error stays shown.
C11_ClearedAfterFix ==
    [][ \A d \in CfgDirs :
          (ErrorShownThenFixed(d) /\ req'.op = "read" /\ req'.dir = d)
          => IF d \in DOMAIN configCache
             THEN events' = <<>> /\ diagnostics' = diagnostics
             ELSE /\ ClearsDiagnostics(events', configFileOf(d))
                  /\ diagnostics'[configFileOf(d)] = <<>> ]_vars

C11_Witness ==
    /\ req.op = "read"
    /\ ~req.hit
    /\ req.was = <<"Error">>
    /\ ParsesOk(configFileOf(req.dir))
    /\ ClearsDiagnostics(events, configFileOf(req.dir))
    /\ diagnostics[configFileOf(req.dir)] = <<>>

-----------------------------------------------------------------------------
(* Properties of the module name / URI mapping (specification SpecWs) *)

\* the path a file URI for p hands to the platform
GenericOf(p) == fsPathGeneric(UriFile(p))

\* the platform takes v for a virtual path and maps it back to the file p
MapsBack(v, p) ==
    /\ isVirtualPath(v)
    /\ resolveToRealPath(v) # NoPath
    /\ UriFile(resolveToRealPath(v)) = UriFile(p)

\* both round trips through a virtual path, and the one of an unmapped file
RoundTripVirtual(p, v) ==
    /\ getUri(getModuleName(UriFile(p))) = UriFile(p)
    /\ getModuleName(getUri(v)) = v

RoundTripReal(p) ==
    /\ getModuleName(UriFile(p)) = GenericOf(p)
    /\ getUri(GenericOf(p)) = UriFile(p)

-----------------------------------------------------------------------------
(* Properties of the config file read (specification SpecNavCfg) *)

ExpectedLogical(r) ==
    CASE r = RequirerA -> <<"/", "proj", "/", "src", "/", "a">>
      [] r = RequirerInit -> <<"/", "proj", "/", "src", "/", "pkg">>
      [] r = RequirerWin -> <<"/", "proj", "/", "src", "/", "b">>
      [] r = RequirerInitLua -> <<"/", "proj", "/", "src", "/", "pkg">>

\* C15: resetToRequirer() sets the logical path to the normalized requirer
\* path without its init-file or source suffix, and returns Success unless
\* the projection of that path is Ambiguous; it does not return NotFound,
\* whether or not the requirer file exists.
C15_ResetToRequirer ==
    last.op = "resetToRequirer" =>
        /\ modulePath = ExpectedLogical(requirerPath)
        /\ last.result = (IF getRealPath(modulePath).status = Ambiguous
                          THEN Ambiguous ELSE Success)
        /\ last.result # NotFound

C15_Witness ==
    /\ last.op = "resetToRequirer"
    /\ requirerPath = RequirerWin
    /\ ~isFile(normalizePath(requirerPath))
    /\ getRealPath(modulePath).status = NotFound
    /\ modulePath = Src \o <<"/", "b">>
    /\ last.result = Success

-----------------------------------------------------------------------------
(* Properties of getConfig (specification SpecGetCfg) *)

\* the directory a module name's config is looked up in: the parent of the
\* file, for an init file the parent of its directory; NoPath where the name
\* has no real path, the real path has no relative part or no parent, or an
\* init file's directory has no parent (the filesystem root has none)
LookupDir(name) ==
    CASE name = NameInA -> DirA
      [] name = NameInAB -> DirAB
      [] name = NameInitAB -> DirA
      [] name \in {NameInitRoot, Root, NameRelative, NameInitRelative, NameVirtual}
         -> NoPath

\* the request returns what readConfigRec(d) returns and has its effects;
\* with d = NoPath it returns defaultConfig
AnswersLike(d) ==
    IF d = NoPath
    THEN req'.ret = defaultConfig
    ELSE /\ req'.ret = readConfigRec(d, configCache).ret
         /\ configCache' = readConfigRec(d, configCache).cache
         /\ events' = readConfigRec(d, configCache).pubs

\* C16, as stated: getConfig(name) returns readConfigRec(parent directory of
\* the real path), for an init file readConfigRec(grandparent directory), and
\* the process default when the name has no real path, the real path has no
\* relative part or no parent, or an init file's directory has no parent.
C16_AsStated ==
    [][ req'.op = "getConfig" => AnswersLike(LookupDir(req'.name)) ]_vars

\* getConfig of the init file of the filesystem root has read the config
\* file of the root directory, the init file's own directory
C16_RootInitReadsRoot ==
    /\ req.op = "getConfig"
    /\ req.name = NameInitRoot
    /\ req.dir = Root
    /\ ~req.hit
    /\ readFile(pathAppend(Root, kConfigName)) = cStrict
    /\ req.ret.mode = "strict"
    /\ req.ret # defaultConfig

-----------------------------------------------------------------------------
(* Properties of the definition requests (specification SpecWs) *)

DefinitionRequest == reply.op \in {"gotoDefinition", "gotoTypeDefinition"}

-----------------------------------------------------------------------------
(* Published diagnostics against the disk (specification SpecWatched) *)

\* the list last published for f is not empty
Shown(f) == diagnostics[f] # NeverPublished /\ diagnostics[f] # <<>>

\* f exists, is the file the resolver reads for its directory, and fails to
\* parse
CurrentlyInError(f) ==
    /\ readFile(f) # NoFile
    /\ configFileOf(parent_path(f)) = f
    /\ ~ParsesOk(f)

\* C20, as stated: when every creation, edit and deletion of a config file is
\* followed by clearConfigCache() and a resolution of its directory, the list
\* last published for a config file is not empty exactly when the file
\* exists, is the file the resolver reads for its directory, and fails to
\* parse.
C20_AsStated ==
    (client /\ ~ChangePending) =>
        \A f \in CfgFiles : Shown(f) <=> CurrentlyInError(f)

\* an error stays shown for a file that was deleted, after the clear and the
\* resolution of its directory that followed the deletion
C20_StaleAfterDelete ==
    /\ client
    /\ req.op = "resolved"
    /\ req.was = <<"deleted">>
    /\ events = <<>>
    /\ \E f \in CfgFiles :
          /\ parent_path(f) = req.dir
          /\ readFile(f) = NoFile
          /\ diagnostics[f] = <<"Error">>

-----------------------------------------------------------------------------
(* The base case of the recursion (specification SpecCfg) *)

\* the process default with the root directory's own config file merged in
RootConfig ==
    LET f == configFileOf(Root) IN
    IF f = NoFile THEN defaultConfig
    ELSE parseConfig(f, readFile(f), defaultConfig, f = pathAppend(Root, kRobloxRc)).result

\* C21, as stated: a resolution of the filesystem root returns the process
\* default config, whatever files the root directory contains.
C21_AsStated ==
    (req.op = "read" /\ req.dir = Root) => req.ret = defaultConfig

\* C21, amended: a resolution of any directory on an empty cache completes,
\* having recursed up to the filesystem root, whose entry is then in the
\* cache; the config of the root is the process default with the root's own
\* config file merged in, and the process default itself when the root holds
\* no config file; a resolution of the root returns that config.
C21_RootStartsFromDefault ==
    (req.op = "read" /\ req.cold) =>
        /\ req.dir \in DOMAIN configCache
        /\ Root \in DOMAIN configCache
        /\ configCache[Root] = RootConfig
        /\ NoLocalConfig(Root) => configCache[Root] = defaultConfig
        /\ req.dir = Root => req.ret = RootConfig

C21_Witness ==
    /\ req.op = "read"
    /\ req.cold
    /\ req.dir = DirAB
    /\ readFile(pathAppend(Root, kConfigName)) = cStrict
    /\ configCache[Root].mode = "strict"
    /\ configCache[Root] # defaultConfig
    /\ DOMAIN configCache = CfgDirs

-----------------------------------------------------------------------------
(* A config file that fails to parse (specification SpecCfg) *)

\* the config file the resolver reads for d exists and fails to parse
FailsToParse(d) ==
    /\ configFileOf(d) # NoFile
    /\ ~ParsesOk(configFileOf(d))

\* the events of the last request that carry the URI f
EventsFor(f) == { i \in 1..Len(events) : events[i].uri = f }

\* base with the config file of d merged in, as far as the file parses
MergedInto(d, base) ==
    LET f == configFileOf(d) IN
    IF f = NoFile THEN base
    ELSE parseConfig(f, readFile(f), base, f = pathAppend(d, kRobloxRc)).result

\* the last request was readConfigRec(d) for a directory whose config file
\* fails to parse
ReadOfFailing == req.op = "read" /\ FailsToParse(req.dir)

-----------------------------------------------------------------------------
(* Publishing between two clears (specification SpecCfg) *)

\* the directories of CfgDirs that are d or above d
AncestorsOrSelf(d) == { a \in CfgDirs : IsAncestorOrSelf(a, d) }

\* the step is a request that resolves a directory
IsRequest(r) == r.op \in {"read", "getConfig"}

\* C26: between two calls of clearConfigCache each config file URI receives
\* at most one diagnostics event: an event is published for a file only by a
\* request that finds the file's directory not memoized and memoizes it, no
\* request publishes two events for one URI, and a memoized directory stays
\* memoized until the next clear; a request answered from the cache
\* publishes nothing; after readConfigRec(d) the cache holds an entry for d
\* and for every ancestor of d.
C26_OncePerClear ==
    [][ /\ \A i \in 1..Len(events') :
              /\ IsRequest(req')
              /\ parent_path(events'[i].uri) \notin DOMAIN configCache
              /\ parent_path(events'[i].uri) \in DOMAIN configCache'
              /\ \A j \in 1..Len(events') :
                    j # i => events'[j].uri # events'[i].uri
        /\ req'.op # "clear" => DOMAIN configCache \subseteq DOMAIN configCache'
        /\ (IsRequest(req') /\ req'.hit) =>
              /\ events' = <<>>
              /\ diagnostics' = diagnostics
        /\ req'.op = "read" =>
              AncestorsOrSelf(req'.dir) \subseteq DOMAIN configCache' ]_vars

C26_Witness ==
    /\ client
    /\ req.op = "read"
    /\ req.hit
    /\ req.dir = DirAB
    /\ FailsToParse(DirAB)
    /\ events = <<>>
    /\ diagnostics[configFileOf(DirAB)] = <<"Error">>
    /\ AncestorsOrSelf(DirAB) = CfgDirs
    /\ DOMAIN configCache = CfgDirs

-----------------------------------------------------------------------------
(* The config files of the two layers (specification SpecShared) *)

\* the directory whose config files getConfigStatus looks at
CursorConfigDir ==
    LET p == getConfigPath(realPath, kConfigName) IN SubSeq(p, 1, Len(p) - 2)

\* the cursor stands where both layers' config files are modelled
CursorInShared == realPath # EmptyStr /\ CursorConfigDir \in SharedDirs

\* C23, as stated: getConfigStatus of a cursor whose config directory is d is
\* Absent exactly when readConfigRec(d) finds no config file of d to merge,
\* and the file the navigator reports for d is the file the resolver reads
\* for d.
C23_AsStated ==
    CursorInShared =>
        LET d == CursorConfigDir IN
        /\ (getConfigStatus = "Absent") <=> (configFileOf(d) = NoFile)
        /\ getConfigStatus = "PresentJson"
              => configFileOf(d) = pathAppend(d, kConfigName)
        /\ getConfigStatus = "PresentLuau"
              => configFileOf(d) = pathAppend(d, kLuauConfigName)

\* the navigator reports no config for /proj/src while readConfigRec(/proj/src)
\* has merged /proj/src/.robloxrc
C23_LegacyFileUnseen ==
    /\ realPath = Src
    /\ CursorConfigDir = Src
    /\ getConfigStatus = "Absent"
    /\ req.op = "read"
    /\ req.dir = Src
    /\ ~req.hit
    /\ configFileOf(Src) = pathAppend(Src, kRobloxRc)
    /\ NoLocalConfig(Proj)
    /\ req.ret # defaultConfig
    /\ configCache[Proj] = defaultConfig

-----------------------------------------------------------------------------
(* The resolved path after a successful step (specification Spec) *)

\* the paths the projection of logical path p can yield
ProjectionsOf(p) ==
    { EmptyStr, p }
    \cup { p \o kSuffixes[i] : i \in 1..Len(kSuffixes) }
    \cup { p \o kInitSuffixes[i] : i \in 1..Len(kInitSuffixes) }

\* C24, as stated: after every navigation step that returns Success the
\* resolved path is empty, or the current logical path, or the current
\* logical path followed by .luau, .lua, /init.luau or /init.lua.
C24_AsStated ==
    (last.op \in NavOps /\ last.result = Success)
        => getResolvedPath \in ProjectionsOf(modulePath)

\* toParent has returned Success for a parent that is ambiguous, and the
\* resolved path is still the file of the logical path it came from
C24_StaleAfterToParent ==
    /\ last.op = "toParent"
    /\ last.result = Success
    /\ modulePath = Src
    /\ getRealPath(modulePath).status = Ambiguous
    /\ getResolvedPath = RequirerA
    /\ getResolvedPath \notin ProjectionsOf(modulePath)
    /\ isModulePresent

-----------------------------------------------------------------------------
(* resetToRequirer against a fresh cursor (specification Spec) *)

\* resetToRequirer on a cursor just constructed for the requirer path: the
\* logical path, the result and the real path it leaves
FreshReset ==
    LET mp == getModulePath(normalizePath(requirerPath))
        r == updateRealPaths(mp, EmptyStr)
    IN [modulePath |-> mp, realPath |-> r.realPath, status |-> r.status]

\* C25, as stated: after resetToRequirer, whatever steps came before, the
\* logical path, the real path, the result and the config status are those
\* of resetToRequirer on a fresh cursor for the same requirer path.
C25_AsStated ==
    last.op = "resetToRequirer" =>
        /\ modulePath = FreshReset.modulePath
        /\ realPath = FreshReset.realPath
        /\ last.result = FreshReset.status
        /\ getConfigStatus =
              configStatusOf(isFile(getConfigPath(FreshReset.realPath, kConfigName)),
                             isFile(getConfigPath(FreshReset.realPath, kLuauConfigName)))

\* resetToRequirer has returned Ambiguous and the real path is the one left
\* by the step before it, where a fresh cursor has the empty path
C25_DependsOnHistory ==
    /\ last.op = "resetToRequirer"
    /\ last.result = Ambiguous
    /\ modulePath = FreshReset.modulePath
    /\ FreshReset.realPath = EmptyStr
    /\ realPath = Src

=============================================================================
